---- MODULE Spec2Model ----
(***************************************************************************)
(* Graduation audit (audit_l3.py, with the Level 1 and Level 2 tools it    *)
(* was assembled from).                                                    *)
(*                                                                         *)
(* Strings are sequences of one-character strings, so that strip(),        *)
(* upper(), startswith() and the regular expressions are computed as the   *)
(* code computes them.  Python floats are carried as fixed-point integers: *)
(* credit weights and grade points in tenths (3.0 credits = 30, A- = 37),  *)
(* their products in hundredths.  A CGPA is kept as the exact fraction     *)
(* <<numerator, denominator>>; float rounding is not modelled.             *)
(***************************************************************************)
EXTENDS Integers, Sequences, FiniteSets, TLC

VARIABLES
    pc,                    \* position in main(): "main", "parse", "parsed",
                           \*   "audit", "audited", "reported", and the
                           \*   ends "exited" (sys.exit(1)) and "crashed"
                           \*   (an exception nothing catches)
    program_file,          \* what open() of the program file meets
    transcript_file,       \* what open() of the transcript meets
    program_name,          \* parse_program_knowledge: the target name
    lines,                 \* the raw lines of the document processed so far
    requirements,          \* the requirements dict
    current_section,       \* parse_program_knowledge local
    target_program_found,  \* parse_program_knowledge local
    row,                   \* audit_student: the row the loop last read
    rows,                  \* the transcript rows processed so far
    passed_courses,        \* audit_student local (a set)
    course_history,        \* audit_student local (a dict: code -> entry)
    audit,                 \* the dict audit_student returns
    is_eligible            \* print_report's verdict

vars == <<pc, program_file, transcript_file, program_name, lines,
          requirements, current_section, target_program_found, row, rows,
          passed_courses, course_history, audit, is_eligible>>

(***************************************************************************)
(* str methods                                                             *)
(***************************************************************************)
LowerCase == <<"a","b","c","d","e","f","g","h","i","j","k","l","m",
               "n","o","p","q","r","s","t","u","v","w","x","y","z">>
UpperCase == <<"A","B","C","D","E","F","G","H","I","J","K","L","M",
               "N","O","P","Q","R","S","T","U","V","W","X","Y","Z">>
Digits == <<"0","1","2","3","4","5","6","7","8","9">>

IsSpace(c) == c \in {" ", "\t", "\n", "\r"}
IsUpper(c) == \E i \in DOMAIN UpperCase : UpperCase[i] = c
IsDigit(c) == \E i \in DOMAIN Digits : Digits[i] = c
DigitVal(c) == (CHOOSE i \in DOMAIN Digits : Digits[i] = c) - 1

UpperChar(c) ==
    IF \E i \in DOMAIN LowerCase : LowerCase[i] = c
    THEN UpperCase[CHOOSE i \in DOMAIN LowerCase : LowerCase[i] = c]
    ELSE c

\* str.upper()
upper(s) == [i \in DOMAIN s |-> UpperChar(s[i])]

\* str.lstrip(), str.rstrip()
RECURSIVE lstrip(_)
lstrip(s) ==
    IF s # <<>> /\ IsSpace(s[1]) THEN lstrip(Tail(s)) ELSE s

RECURSIVE rstrip(_)
rstrip(s) ==
    IF s # <<>> /\ IsSpace(s[Len(s)])
    THEN rstrip(SubSeq(s, 1, Len(s) - 1))
    ELSE s

\* str.strip(): leading and trailing whitespace removed
strip(s) == rstrip(lstrip(s))

\* str.startswith(prefix)
startswith(s, prefix) ==
    /\ Len(prefix) <= Len(s)
    /\ SubSeq(s, 1, Len(prefix)) = prefix

\* int() of a run of decimal digits
RECURSIVE int(_)
int(ds) ==
    IF ds = <<>> THEN 0
    ELSE 10 * int(SubSeq(ds, 1, Len(ds) - 1)) + DigitVal(ds[Len(ds)])

(***************************************************************************)
(* Grade table and passing test                                            *)
(***************************************************************************)
\* GRADE_POINTS, in tenths of a grade point
GRADE_POINTS ==
    (<<"A">> :> 40) @@ (<<"A","-">> :> 37) @@ (<<"B","+">> :> 33) @@
    (<<"B">> :> 30) @@ (<<"B","-">> :> 27) @@ (<<"C","+">> :> 23) @@
    (<<"C">> :> 20) @@ (<<"C","-">> :> 17) @@ (<<"D","+">> :> 13) @@
    (<<"D">> :> 10) @@ (<<"F">> :> 0)

\* GRADE_POINTS.get(grade) is not None  (audit_l3: the grade as written)
HasGradePoints(grade) == grade \in DOMAIN GRADE_POINTS

\* audit_l2.get_grade_points(grade) is not None  (the grade upper-cased)
has_grade_points_l2(grade) == upper(grade) \in DOMAIN GRADE_POINTS

\* audit_l2.get_grade_points(grade), where it is not None
get_grade_points(grade) == GRADE_POINTS[upper(grade)]

\* mutant: the grade is compared as written, without upper()
is_passing_exact(grade) == grade \notin {<<"F">>, <<"W">>, <<"I">>, <<"X">>}

\* audit_l3.is_passing, lines 13-14
is_passing(grade) == upper(grade) \notin {<<"F">>, <<"W">>, <<"I">>, <<"X">>}

\* audit_l1.is_passing_grade
is_passing_grade(grade) ==
    LET failing_grades == {<<"F">>, <<"W">>, <<"I">>, <<"X">>}
    IN  upper(grade) \notin failing_grades

(***************************************************************************)
(* parse_program_knowledge                                                 *)
(***************************************************************************)
HeaderPrefix == <<"#","#"," ","[","P","r","o","g","r","a","m",":"," ">>
TotalCreditsLabel ==
    <<"-"," ","*","*","T","o","t","a","l"," ","C","r","e","d","i","t","s"," ",
      "R","e","q","u","i","r","e","d","*","*",":">>
MinimumCgpaLabel ==
    <<"-"," ","*","*","M","i","n","i","m","u","m"," ","C","G","P","A","*","*",":">>
MandatoryGedLabel ==
    <<"-"," ","*","*","M","a","n","d","a","t","o","r","y"," ","G","E","D","*","*",":">>
CoreMathLabel ==
    <<"-"," ","*","*","C","o","r","e"," ","M","a","t","h","*","*",":">>
MajorCoreLabel ==
    <<"-"," ","*","*","M","a","j","o","r"," ","C","o","r","e","*","*",":">>
CoreBusinessLabel ==
    <<"-"," ","*","*","C","o","r","e"," ","B","u","s","i","n","e","s","s","*","*",":">>
CoreScienceLabel ==
    <<"-"," ","*","*","C","o","r","e"," ","S","c","i","e","n","c","e","*","*",":">>

\* re.match(r'^## \[Program: (.*)\]', line): the match succeeds
ProgramMatches(line) ==
    /\ startswith(line, HeaderPrefix)
    /\ \E j \in DOMAIN line : j > Len(HeaderPrefix) /\ line[j] = "]"

\* program_match.group(1): (.*) is greedy, so it runs to the last "]"
ProgramGroup(line) ==
    LET last == CHOOSE j \in DOMAIN line :
                    /\ j > Len(HeaderPrefix) /\ line[j] = "]"
                    /\ \A k \in DOMAIN line : line[k] = "]" => k <= j
    IN  SubSeq(line, Len(HeaderPrefix) + 1, last - 1)

\* the first index >= i of s that holds no whitespace (Len(s)+1 if none)
SkipSpaces(s, i) ==
    CHOOSE j \in i..(Len(s) + 1) :
        /\ \A k \in i..(j - 1) : IsSpace(s[k])
        /\ j <= Len(s) => ~IsSpace(s[j])

\* where the code would start under r'^\s*-\s*([A-Z]{3}\d{3}[L]?)', 0 if the
\* line does not open with a bullet
CourseStart(line) ==
    LET d == SkipSpaces(line, 1)
    IN  IF d <= Len(line) /\ line[d] = "-" THEN SkipSpaces(line, d + 1) ELSE 0

\* re.search(r'^\s*-\s*([A-Z]{3}\d{3}[L]?)', line): the match succeeds
CourseMatches(line) ==
    LET c == CourseStart(line)
    IN  /\ c > 0
        /\ c + 5 <= Len(line)
        /\ \A k \in c..(c + 2) : IsUpper(line[k])
        /\ \A k \in (c + 3)..(c + 5) : IsDigit(line[k])

\* course_match.group(1)
CourseGroup(line) ==
    LET c == CourseStart(line)
    IN  IF c + 6 <= Len(line) /\ line[c + 6] = "L"
        THEN SubSeq(line, c, c + 6)
        ELSE SubSeq(line, c, c + 5)

\* re.search(r'\d+', line) is not None
HasDigits(line) == \E i \in DOMAIN line : IsDigit(line[i])

\* re.search(r'\d+', line).group(): the first maximal run of digits
FirstDigits(line) ==
    LET a == CHOOSE i \in DOMAIN line :
                 IsDigit(line[i]) /\ \A k \in 1..(i - 1) : ~IsDigit(line[k])
        b == CHOOSE j \in a..Len(line) :
                 /\ \A k \in a..j : IsDigit(line[k])
                 /\ j < Len(line) => ~IsDigit(line[j + 1])
    IN  SubSeq(line, a, b)

\* the requirements dict as created (lines 29-37); min_cgpa in tenths
NewRequirements ==
    [total_credits_required |-> 0, min_cgpa |-> 20,
     mandatory_ged |-> <<>>, core_math |-> <<>>, major_core |-> <<>>,
     core_business |-> <<>>, core_science |-> <<>>]

\* the parser's locals before the first line (lines 29-40)
NewParse ==
    [requirements |-> NewRequirements, current_section |-> "None",
     target_program_found |-> FALSE, raised |-> "None"]

\* mutant: only the first credit line of the section is honoured
SetTotalOnce(st, n) ==
    IF st.requirements.total_credits_required = 0
    THEN [st EXCEPT !.requirements.total_credits_required = n]
    ELSE st

\* line 64: the assignment to requirements['total_credits_required']
SetTotal(st, n) == [st EXCEPT !.requirements.total_credits_required = n]

\* mutant: the minimum CGPA of the document is adopted (3.0 in the documents
\* here)
MinimumCgpaAdopted(st) == [st EXCEPT !.requirements.min_cgpa = 30]

\* lines 65-67: a minimum-CGPA line is recognised and passed over
MinimumCgpaSeen(st) == st

\* lines 63-77: the label chain of one line inside the target section
ParseLabel(st, line) ==
    IF startswith(line, TotalCreditsLabel) THEN
        IF HasDigits(line)
        THEN SetTotal(st, int(FirstDigits(line)))
        ELSE [st EXCEPT !.raised = "AttributeError"]
    ELSE IF startswith(line, MinimumCgpaLabel) THEN MinimumCgpaSeen(st)
    ELSE IF startswith(line, MandatoryGedLabel) THEN
        [st EXCEPT !.current_section = "GED"]
    ELSE IF startswith(line, CoreMathLabel) THEN
        [st EXCEPT !.current_section = "MATH"]
    ELSE IF startswith(line, MajorCoreLabel) THEN
        [st EXCEPT !.current_section = "CORE"]
    ELSE IF startswith(line, CoreBusinessLabel) THEN
        [st EXCEPT !.current_section = "BUSINESS"]
    ELSE IF startswith(line, CoreScienceLabel) THEN
        [st EXCEPT !.current_section = "SCIENCE"]
    ELSE st

\* lines 82-94: a course bullet goes to the list of the current section
ParseCourse(st, line) ==
    IF ~CourseMatches(line) THEN st
    ELSE LET course_code == CourseGroup(line)
         IN  IF st.current_section = "GED" THEN
                 [st EXCEPT !.requirements.mandatory_ged = Append(@, course_code)]
             ELSE IF st.current_section = "MATH" THEN
                 [st EXCEPT !.requirements.core_math = Append(@, course_code)]
             ELSE IF st.current_section = "CORE" THEN
                 [st EXCEPT !.requirements.major_core = Append(@, course_code)]
             ELSE IF st.current_section = "BUSINESS" THEN
                 [st EXCEPT !.requirements.core_business = Append(@, course_code)]
             ELSE IF st.current_section = "SCIENCE" THEN
                 [st EXCEPT !.requirements.core_science = Append(@, course_code)]
             ELSE st

\* mutant: a repeated header of the target keeps the active category
EnterSectionKeep(st) ==
    [st EXCEPT !.target_program_found = TRUE,
               !.current_section =
                   IF st.target_program_found THEN @ ELSE "PROGRAM_HEADER"]

\* lines 52-53: a header of the target program opens the section
EnterSection(st) ==
    [st EXCEPT !.target_program_found = TRUE,
               !.current_section = "PROGRAM_HEADER"]

\* lines 55-56: a header of another program closes the section
LeaveSection(st) ==
    [st EXCEPT !.target_program_found = FALSE, !.current_section = "None"]

\* mutant: any program header opens the section
NameMatchesAny(group, name) == TRUE

\* line 51: the header names the target program
NameMatches(group, name) == strip(group) = name

\* mutant: the `continue` outside the target section is lost
InSectionAlways(st) == TRUE

\* lines 59-60: outside the target section the line is skipped
InSection(st) == st.target_program_found

\* lines 47-94: one iteration of the loop over the lines, for target `name`
ParseLine(st, name, raw) ==
    LET line == strip(raw)
    IN  IF ProgramMatches(line) THEN
            IF NameMatches(ProgramGroup(line), name)
            THEN EnterSection(st)
            ELSE LeaveSection(st)
        ELSE IF ~InSection(st) THEN st
        ELSE LET labelled == ParseLabel(st, line)
             IN  IF labelled.raised # "None" THEN labelled
                 ELSE ParseCourse(labelled, line)

\* parse_program_knowledge(md_file, program_name) on a readable file whose
\* lines are doc: the loop run to its end, or to the line that raises
RECURSIVE ParseFrom(_, _, _)
ParseFrom(st, name, doc) ==
    IF doc = <<>> \/ st.raised # "None" THEN st
    ELSE ParseFrom(ParseLine(st, name, Head(doc)), name, Tail(doc))

parse_program_knowledge(doc, name) == ParseFrom(NewParse, name, doc)

(***************************************************************************)
(* audit_student                                                           *)
(***************************************************************************)
\* the text is a decimal numeral float() accepts: optional sign, digits with
\* at most one point, at least one digit (the numerals the transcripts use)
IsDecimal(t) ==
    LET body == IF t # <<>> /\ t[1] \in {"+", "-"} THEN Tail(t) ELSE t
        dots == {i \in DOMAIN body : body[i] = "."}
    IN  /\ Cardinality(dots) <= 1
        /\ \A i \in DOMAIN body : i \notin dots => IsDigit(body[i])
        /\ \E i \in DOMAIN body : IsDigit(body[i])

\* float(t) of such a numeral, in tenths (the first fractional digit is kept)
DecimalTenths(t) ==
    LET neg  == t[1] = "-"
        body == IF t[1] \in {"+", "-"} THEN Tail(t) ELSE t
        dots == {i \in DOMAIN body : body[i] = "."}
        dot  == IF dots = {} THEN Len(body) + 1 ELSE CHOOSE i \in dots : TRUE
        whole == int(SubSeq(body, 1, dot - 1))
        tenth == IF dot + 1 <= Len(body) THEN DigitVal(body[dot + 1]) ELSE 0
        mag  == 10 * whole + tenth
    IN  IF neg THEN 0 - mag ELSE mag

\* lines 116-118: float(row['Credits']), 0.0 when it raises
CreditsOf(text) ==
    IF IsDecimal(strip(text)) THEN DecimalTenths(strip(text)) ELSE 0

\* dict assignment d[key] = value
DictSet(d, key, value) ==
    [k \in DOMAIN d \cup {key} |-> IF k = key THEN value ELSE d[k]]

\* mutant: a failing retake takes the course out of the passed set
PassedAfterLatest(passed, course, grade) ==
    IF is_passing(grade) THEN passed \cup {course} ELSE passed \ {course}

\* lines 123-124: the passed set after a row
PassedAfter(passed, course, grade) ==
    IF is_passing(grade) THEN passed \cup {course} ELSE passed

\* mutant: the best attempt is kept instead of the latest
HistoryAfterBest(history, course, grade, credits) ==
    IF /\ HasGradePoints(grade)
       /\ course \in DOMAIN history => GRADE_POINTS[grade] >= history[course].points
    THEN DictSet(history, course,
                 [grade |-> grade, credits |-> credits,
                  points |-> GRADE_POINTS[grade]])
    ELSE history

\* mutant: only passing attempts are recorded
HistoryAfterPassing(history, course, grade, credits) ==
    IF HasGradePoints(grade) /\ is_passing(grade)
    THEN DictSet(history, course,
                 [grade |-> grade, credits |-> credits,
                  points |-> GRADE_POINTS[grade]])
    ELSE history

\* mutant: a row whose credit weight is 0 is not recorded
HistoryAfterSkipZero(history, course, grade, credits) ==
    IF HasGradePoints(grade) /\ credits # 0
    THEN DictSet(history, course,
                 [grade |-> grade, credits |-> credits,
                  points |-> GRADE_POINTS[grade]])
    ELSE history

\* lines 129-130: the history after a row
HistoryAfter(history, course, grade, credits) ==
    IF HasGradePoints(grade)
    THEN DictSet(history, course,
                 [grade |-> grade, credits |-> credits,
                  points |-> GRADE_POINTS[grade]])
    ELSE history

\* mutant: the credits of every course of the history are summed, passed or not
RECURSIVE SumHistoryCredits(_, _)
SumHistoryCredits(history, codes) ==
    IF codes = {} THEN 0
    ELSE LET course == CHOOSE c \in codes : TRUE
         IN  history[course].credits
                 + SumHistoryCredits(history, codes \ {course})

TotalAttemptedCredits(passed, history) ==
    SumHistoryCredits(history, DOMAIN history)

\* lines 141-146: credits of the passed courses, from the history
RECURSIVE TotalEarnedCredits(_, _)
TotalEarnedCredits(passed, history) ==
    IF passed = {} THEN 0
    ELSE LET course == CHOOSE c \in passed : TRUE
             rest == TotalEarnedCredits(passed \ {course}, history)
         IN  IF course \in DOMAIN history
             THEN rest + history[course].credits
             ELSE rest

\* mutant: every entry counts towards the CGPA
CountsForGpaAny(data) == TRUE

\* line 152: the entries that count towards the CGPA
CountsForGpa(data) == data.credits > 0

\* lines 149-154: gpa_points (hundredths) and gpa_credits (tenths)
RECURSIVE GpaSums(_, _)
GpaSums(history, codes) ==
    IF codes = {} THEN [points |-> 0, credits |-> 0]
    ELSE LET course == CHOOSE c \in codes : TRUE
             rest == GpaSums(history, codes \ {course})
             data == history[course]
         IN  IF CountsForGpa(data)
             THEN [points |-> rest.points + data.points * data.credits,
                   credits |-> rest.credits + data.credits]
             ELSE rest

\* line 156: cgpa as <<numerator, denominator>> in grade points,
\* <<0, 1>> for 0.0
Cgpa(history) ==
    LET sums == GpaSums(history, DOMAIN history)
    IN  IF sums.credits > 0 THEN <<sums.points, 10 * sums.credits>>
        ELSE <<0, 1>>

\* mutant: the missing codes come out in reverse order
RECURSIVE MissingOfReversed(_, _)
MissingOfReversed(required, passed) ==
    IF required = <<>> THEN <<>>
    ELSE IF Head(required) \notin passed
         THEN MissingOfReversed(Tail(required), passed) \o <<Head(required)>>
         ELSE MissingOfReversed(Tail(required), passed)

\* lines 167-180: the required codes not passed, in the list's order
RECURSIVE MissingOf(_, _)
MissingOf(required, passed) ==
    IF required = <<>> THEN <<>>
    ELSE IF Head(required) \notin passed
         THEN <<Head(required)>> \o MissingOf(Tail(required), passed)
         ELSE MissingOf(Tail(required), passed)

\* lines 159-187: what audit_student returns
AuditResult(passed, history, req) ==
    [total_earned |-> TotalEarnedCredits(passed, history),
     cgpa |-> Cgpa(history),
     missing |-> [GED |-> MissingOf(req.mandatory_ged, passed),
                  Math |-> MissingOf(req.core_math, passed),
                  Core |-> MissingOf(req.major_core, passed),
                  Science |-> MissingOf(req.core_science, passed),
                  Business |-> MissingOf(req.core_business, passed)],
     passed_courses |-> passed]

(***************************************************************************)
(* audit_l1.calculate_credits                                              *)
(***************************************************************************)
\* the value csv.DictReader gives a field that the row is too short to have
NoneField == <<"None">>

\* the tally before the first row
NewTally == [passed_courses |-> {}, total_credits |-> 0, raised |-> "None"]

\* audit_l1 lines 36-52: one row of the loop; .strip() of a missing field
\* raises AttributeError, float() of one TypeError, which only the outer
\* handler catches
TallyRow(tally, entry) ==
    IF entry.Course_Code = NoneField THEN [tally EXCEPT !.raised = "AttributeError"]
    ELSE IF entry.Credits = NoneField THEN [tally EXCEPT !.raised = "TypeError"]
    ELSE IF entry.Grade = NoneField THEN [tally EXCEPT !.raised = "AttributeError"]
    ELSE LET course_code == strip(entry.Course_Code)
             credits == CreditsOf(entry.Credits)
             grade == strip(entry.Grade)
         IN  IF is_passing_grade(grade) /\ course_code \notin tally.passed_courses
             THEN [tally EXCEPT
                       !.total_credits = tally.total_credits + credits,
                       !.passed_courses = tally.passed_courses \cup {course_code}]
             ELSE tally

RECURSIVE TallyFrom(_, _, _)
TallyFrom(tally, entries, i) ==
    IF i > Len(entries) \/ tally.raised # "None" THEN tally
    ELSE TallyFrom(TallyRow(tally, entries[i]), entries, i + 1)

\* audit_l1 lines 14-64 on the rows of a readable transcript; the total is
\* printed only when raised = "None"
calculate_credits(entries) == TallyFrom(NewTally, entries, 1)

(***************************************************************************)
(* print_report                                                            *)
(***************************************************************************)
\* mutant: the CGPA is not compared with the minimum
CgpaOkAlways(result, req) == TRUE

\* line 197; min_cgpa is in tenths
CgpaOk(result, req) == 10 * result.cgpa[1] >= req.min_cgpa * result.cgpa[2]

\* mutant: the credit threshold is strict
CreditsOkStrict(result, req) ==
    result.total_earned > 10 * req.total_credits_required

\* line 198; total_earned is in tenths
CreditsOk(result, req) ==
    result.total_earned >= 10 * req.total_credits_required

\* line 201
HasMissing(result) ==
    \E cat \in DOMAIN result.missing : Len(result.missing[cat]) > 0

\* line 203
IsEligible(result, req) ==
    CgpaOk(result, req) /\ CreditsOk(result, req) /\ ~HasMissing(result)

(***************************************************************************)
(* Inputs                                                                  *)
(***************************************************************************)
MaxLines == 4
MaxRows == 3

CSE == <<"C","S","E">>
BBA == <<"B","B","A">>
EEE == <<"E","E","E">>
CSE115 == <<"C","S","E","1","1","5">>
MAT116 == <<"M","A","T","1","1","6">>
ENG102 == <<"E","N","G","1","0","2">>

\* the target names main() hands to the parser; no header names EEE
ProgramNames == {CSE, BBA, EEE}

\* the target names of the line-by-line parses: one a header names, one not
ParseTargets == {CSE, EEE}

HeaderCSE == HeaderPrefix \o CSE \o <<"]","\n">>
HeaderBBA == HeaderPrefix \o <<" ">> \o BBA \o <<" ","]","\n">>
TotalLine6 == TotalCreditsLabel \o <<" ","6","\n">>
TotalLine3 == TotalCreditsLabel \o <<" ","3","\n">>
TotalLine130 ==
    TotalCreditsLabel \o <<" ","1","3","0"," ","c","r","e","d","i","t","s","\n">>
TotalLineTBD == TotalCreditsLabel \o <<" ","T","B","D","\n">>
MinCgpaLine == MinimumCgpaLabel \o <<" ","3",".","0","\n">>
GedLine == MandatoryGedLabel \o <<"\n">>
MathLine == CoreMathLabel \o <<"\n">>
CoreLine == MajorCoreLabel \o <<"\n">>
BusinessLine == CoreBusinessLabel \o <<"\n">>
ScienceLine == CoreScienceLabel \o <<"\n">>
BulletENG102 ==
    <<" "," ","-"," ">> \o ENG102 \o <<":"," ","C","o","m","p","\n">>
BulletMAT116 == <<" "," ","-"," ">> \o MAT116 \o <<"\n">>
BulletCSE115 == <<" "," ","-"," ">> \o CSE115 \o <<"\n">>
BulletCSE115L == <<"-"," ">> \o CSE115 \o <<"L","\n">>

\* the lines a requirements document is drawn from
DocLines ==
    {HeaderCSE, HeaderBBA, TotalLine6, TotalLine130, TotalLineTBD,
     MinCgpaLine, GedLine, MathLine, CoreLine, BusinessLine, ScienceLine,
     BulletENG102, BulletCSE115L}

\* the requirements document of the audit runs
ProgramDoc ==
    <<HeaderCSE, TotalLine6, MinCgpaLine, GedLine, BulletENG102,
      CoreLine, BulletMAT116, BulletCSE115,
      HeaderBBA, TotalLine3, GedLine, BulletENG102>>

Row(code, credits, grade) ==
    [Course_Code |-> code, Credits |-> credits, Grade |-> grade]

\* the rows a transcript is drawn from, as csv.DictReader yields them
CompleteRows ==
    {Row(CSE115, <<"3">>, <<"A">>),
     Row(CSE115, <<"3">>, <<"F">>),
     Row(<<" ">> \o CSE115, <<"4">>, <<"a">>),
     Row(CSE115, <<"x">>, <<"B","+">>),
     Row(CSE115, <<"3">>, <<"W"," ">>),
     Row(MAT116, <<"3">>, <<"C">>),
     Row(MAT116, <<"3">>, <<"P">>),
     Row(MAT116, <<"0">>, <<"A">>),
     Row(MAT116, <<"3">>, <<"f">>),
     Row(ENG102, <<"3">>, <<"D">>),
     Row(ENG102, <<"1",".","5">>, <<"A","-">>),
     Row(ENG102, <<"-","4">>, <<"B">>),
     Row(MAT116, <<>>, <<"B">>)}

\* rows shorter than the header: "CSE115,3", "MAT116", and "3,A" under a
\* header that names Course_Code last
ShortRows ==
    {Row(CSE115, <<"3">>, NoneField),
     Row(MAT116, NoneField, NoneField),
     Row(NoneField, <<"3">>, <<"A">>)}

TranscriptRows == CompleteRows \cup ShortRows

\* the loop variable before the first row
NoRow == Row(<<>>, <<>>, <<>>)

\* a file that opens, one that does not exist, one that open() or the read
\* fails on otherwise (a directory, no permission, bad encoding)
FileStatus == {"readable", "missing", "unreadable"}

\* audit and is_eligible before audit_student and print_report have run
NoAudit == AuditResult({}, <<>>, NewRequirements)

(***************************************************************************)
(* The parser, line by line                                                *)
(***************************************************************************)
InitParse ==
    /\ pc = "parse"
    /\ program_file = "readable"
    /\ transcript_file = "readable"
    /\ program_name \in ParseTargets
    /\ lines = <<>>
    /\ requirements = NewParse.requirements
    /\ current_section = NewParse.current_section
    /\ target_program_found = NewParse.target_program_found
    /\ row = NoRow
    /\ rows = <<>>
    /\ passed_courses = {}
    /\ course_history = <<>>
    /\ audit = NoAudit
    /\ is_eligible = FALSE

AuditVars == <<row, rows, passed_courses, course_history, audit, is_eligible>>
ParseVars == <<program_name, lines, requirements, current_section,
               target_program_found>>
FileVars == <<program_file, transcript_file>>

\* lines 46-94: the loop takes the next line of the file
ReadLine ==
    /\ pc = "parse"
    /\ Len(lines) < MaxLines
    /\ \E raw \in DocLines :
         \E st \in {ParseLine([requirements |-> requirements,
                              current_section |-> current_section,
                              target_program_found |-> target_program_found,
                              raised |-> "None"],
                             program_name, raw)} :
             /\ lines' = Append(lines, raw)
             /\ requirements' = st.requirements
             /\ current_section' = st.current_section
             /\ target_program_found' = st.target_program_found
             /\ pc' = IF st.raised # "None" THEN "crashed" ELSE "parse"
    /\ UNCHANGED <<program_name, FileVars, AuditVars>>

\* line 100: the file is exhausted
ParseReturn ==
    /\ pc = "parse"
    /\ pc' = "parsed"
    /\ UNCHANGED <<ParseVars, FileVars, AuditVars>>

NextParse == ReadLine \/ ParseReturn

SpecParse == InitParse /\ [][NextParse]_vars

(***************************************************************************)
(* main(): the audit of a transcript against the parsed requirements       *)
(***************************************************************************)
\* lines 250-256: main() has its arguments
Init ==
    /\ pc = "main"
    /\ program_file \in FileStatus
    /\ transcript_file \in FileStatus
    /\ program_name \in ProgramNames
    /\ lines = <<>>
    /\ requirements = NewParse.requirements
    /\ current_section = NewParse.current_section
    /\ target_program_found = NewParse.target_program_found
    /\ row = NoRow
    /\ rows = <<>>
    /\ passed_courses = {}
    /\ course_history = <<>>
    /\ audit = NoAudit
    /\ is_eligible = FALSE

\* mutant: the handler of FileNotFoundError prints and goes on
OpenResultNoExit(status) ==
    CASE status = "readable" -> "opened"
      [] status = "missing" -> "opened"
      [] status = "unreadable" -> "crashed"

\* lines 42-43 with 96-98, lines 110-111 with 132-134: open() of a file;
\* FileNotFoundError is caught and ends the run with sys.exit(1), any other
\* error is caught by nothing
OpenResult(status) ==
    CASE status = "readable" -> "opened"
      [] status = "missing" -> "exited"
      [] status = "unreadable" -> "crashed"

\* line 266: parse_program_knowledge reads the program file
ParseProgram ==
    /\ pc = "main"
    /\ IF OpenResult(program_file) = "opened"
       THEN \E st \in {parse_program_knowledge(ProgramDoc, program_name)} :
                /\ lines' = ProgramDoc
                /\ requirements' = st.requirements
                /\ current_section' = st.current_section
                /\ target_program_found' = st.target_program_found
                /\ pc' = IF st.raised # "None" THEN "crashed" ELSE "parsed"
       ELSE /\ pc' = OpenResult(program_file)
            /\ UNCHANGED <<lines, requirements, current_section,
                           target_program_found>>
    /\ UNCHANGED <<program_name, FileVars, AuditVars>>

\* lines 269, 110-111: audit_student opens the transcript
OpenTranscript ==
    /\ pc = "parsed"
    /\ pc' = IF OpenResult(transcript_file) = "opened" THEN "audit"
             ELSE OpenResult(transcript_file)
    /\ UNCHANGED <<ParseVars, FileVars, AuditVars>>

\* lines 114-115: .strip() of a field the row does not have
RowRaises(r) == r.Course_Code = NoneField \/ r.Grade = NoneField

\* lines 113-130: the loop takes the next row of the transcript
AuditRow ==
    /\ pc = "audit"
    /\ Len(rows) < MaxRows
    /\ \E r \in TranscriptRows :
         /\ row' = r
         /\ IF RowRaises(r)
            THEN /\ pc' = "crashed"
                 /\ UNCHANGED <<rows, passed_courses, course_history>>
            ELSE \E course \in {strip(r.Course_Code)},
                    grade \in {strip(r.Grade)},
                    credits \in {CreditsOf(r.Credits)} :
                     /\ rows' = Append(rows, r)
                     /\ passed_courses' =
                            PassedAfter(passed_courses, course, grade)
                     /\ course_history' =
                            HistoryAfter(course_history, course, grade, credits)
                     /\ pc' = pc
    /\ UNCHANGED <<ParseVars, FileVars, audit, is_eligible>>

\* lines 141-187: the transcript is exhausted, the result is returned
AuditReturn ==
    /\ pc = "audit"
    /\ audit' = AuditResult(passed_courses, course_history, requirements)
    /\ pc' = "audited"
    /\ UNCHANGED <<ParseVars, FileVars, row, rows, passed_courses,
                   course_history, is_eligible>>

\* lines 196-213: print_report computes and prints the verdict
PrintReport ==
    /\ pc = "audited"
    /\ is_eligible' = IsEligible(audit, requirements)
    /\ pc' = "reported"
    /\ UNCHANGED <<ParseVars, FileVars, row, rows, passed_courses,
                   course_history, audit>>

Next ==
    ParseProgram \/ OpenTranscript \/ AuditRow \/ AuditReturn \/ PrintReport

Spec == Init /\ [][Next]_vars

(***************************************************************************)
(* Properties of the audit (checked under Spec)                            *)
(***************************************************************************)
\* what each row of the transcripts holds, as the loop reads it
RowRead ==
    [r \in CompleteRows |->
        [code |-> strip(r.Course_Code), grade |-> strip(r.Grade),
         credits |-> CreditsOf(r.Credits)]]

RowCode(i) == RowRead[rows[i]].code
RowGrade(i) == RowRead[rows[i]].grade
RowCredits(i) == RowRead[rows[i]].credits

RowCodes == {RowCode(i) : i \in DOMAIN rows}
Last(S) == CHOOSE i \in S : \A j \in S : j <= i
Returned == pc \in {"audited", "reported"}
Categories == {"GED", "Math", "Core", "Science", "Business"}
GradeA == <<"A">>
GradeF == <<"F">>

\* the rows of code c whose grade, as written, has a point value
EligibleRows(c) ==
    {i \in DOMAIN rows : RowCode(i) = c /\ RowGrade(i) \in DOMAIN GRADE_POINTS}

\* the rows of code c whose grade has a point value once upper-cased
EligibleRowsAnyCase(c) ==
    {i \in DOMAIN rows :
        RowCode(i) = c /\ upper(RowGrade(i)) \in DOMAIN GRADE_POINTS}

\* the rows of code c with a passing grade
PassingRows(c) ==
    {i \in DOMAIN rows :
        /\ RowCode(i) = c
        /\ upper(RowGrade(i)) \notin {<<"F">>, <<"W">>, <<"I">>, <<"X">>}}


\* C1: the verdict is ELIGIBLE iff cgpa >= min_cgpa, total_earned >=
\* total_credits_required and all five missing lists are empty; the credit
\* test is >=, so the verdict flips exactly at the threshold.
C1_VerdictIffAllThree ==
    pc = "reported" =>
        (is_eligible <=>
            /\ 10 * audit.cgpa[1] >= requirements.min_cgpa * audit.cgpa[2]
            /\ audit.total_earned >= 10 * requirements.total_credits_required
            /\ \A cat \in Categories : audit.missing[cat] = <<>>)

\* an eligible verdict with the earned credits exactly at the threshold
C1_Witness ==
    /\ pc = "reported"
    /\ is_eligible
    /\ requirements.total_credits_required > 0
    /\ audit.total_earned = 10 * requirements.total_credits_required

\* C2: after any prefix of the rows a code is in passed_courses iff some row
\* of the prefix for that code had a passing grade; later F/W/I/X retakes of
\* the code do not take it out.
C2_PassedIffSomePassingRow ==
    /\ passed_courses = {c \in RowCodes : PassingRows(c) # {}}
    /\ \A i \in DOMAIN rows :
         RowCode(i) \in passed_courses \/ PassingRows(RowCode(i)) = {}

\* a passed course whose last row is a failing retake
C2_Witness ==
    \E i, j \in DOMAIN rows :
        /\ i < j /\ j = Len(rows)
        /\ RowCode(i) = RowCode(j)
        /\ i \in PassingRows(RowCode(i))
        /\ j \notin PassingRows(RowCode(j))
        /\ RowCode(j) \in passed_courses

\* C3: the history entry of a code carries the credits and points of the last
\* row of that code that has a point value (last write wins, not the best
\* grade); rows without a point value never overwrite it, and a code with no
\* such row has no entry.
C3_LastWriteWins ==
    /\ DOMAIN course_history = {c \in RowCodes : EligibleRows(c) # {}}
    /\ \A c \in DOMAIN course_history :
         LET j == Last(EligibleRows(c))
         IN  /\ course_history[c].credits = RowCredits(j)
             /\ course_history[c].points = GRADE_POINTS[RowGrade(j)]
             /\ course_history[c].grade = RowGrade(j)

\* a better attempt, then a worse one, then a row without a point value: the
\* entry holds the worse, later attempt
C3_Witness ==
    /\ Len(rows) = 3
    /\ RowCode(1) = RowCode(2) /\ RowCode(2) = RowCode(3)
    /\ EligibleRows(RowCode(1)) = {1, 2}
    /\ GRADE_POINTS[RowGrade(1)] > GRADE_POINTS[RowGrade(2)]
    /\ course_history[RowCode(1)].points = GRADE_POINTS[RowGrade(2)]

\* C4 (as claimed): the lookup is case-insensitive: the history entry of a
\* code is written by the last row whose upper-cased grade is in the table,
\* with the point value of the upper-cased grade.
C4_CaseInsensitiveLookup ==
    /\ DOMAIN course_history = {c \in RowCodes : EligibleRowsAnyCase(c) # {}}
    /\ \A c \in DOMAIN course_history :
         LET j == Last(EligibleRowsAnyCase(c))
         IN  /\ course_history[c].credits = RowCredits(j)
             /\ course_history[c].points = GRADE_POINTS[upper(RowGrade(j))]

\* the credit weight on record for code c: that of its last row with a point
\* value, 0 when it has none
RecordedCredits(c) ==
    IF EligibleRows(c) = {} THEN 0 ELSE RowCredits(Last(EligibleRows(c)))

\* the sum of the credit weights on record over the codes of S
RECURSIVE SumRecordedCredits(_)
SumRecordedCredits(S) ==
    IF S = {} THEN 0
    ELSE LET c == CHOOSE x \in S : TRUE
         IN  RecordedCredits(c) + SumRecordedCredits(S \ {c})

\* C5: total_earned is the sum, over the distinct passed codes, of the credit
\* weight on record for the code, 0 for a passed code with no record.
C5_TotalEarned ==
    Returned =>
        audit.total_earned = SumRecordedCredits(audit.passed_courses)

\* a course passed twice and a passed course without a record, with credits
\* earned
C5_Witness ==
    /\ pc = "audited"
    /\ \E c \in audit.passed_courses : Cardinality(PassingRows(c)) = 2
    /\ \E c \in audit.passed_courses : EligibleRows(c) = {}
    /\ audit.total_earned > 0

\* C6: two attempts of one course with the same credit weight, one A and one
\* F, in either order: the course is passed, the credits earned are that
\* weight, and the point value on record is that of the later attempt.
C6_RetakeScenario ==
    ( /\ pc = "audited"
      /\ Len(rows) = 2
      /\ RowCode(1) = RowCode(2)
      /\ RowCredits(1) = RowCredits(2)
      /\ {RowGrade(1), RowGrade(2)} = {GradeA, GradeF} )
    => /\ RowCode(1) \in audit.passed_courses
       /\ audit.total_earned = RowCredits(1)
       /\ course_history[RowCode(1)].points =
              (IF RowGrade(2) = GradeA THEN 40 ELSE 0)

\* the A attempt followed by the F retake
C6_Witness ==
    /\ pc = "audited"
    /\ Len(rows) = 2
    /\ RowCode(1) = RowCode(2)
    /\ RowCredits(1) = RowCredits(2) /\ RowCredits(1) > 0
    /\ RowGrade(1) = GradeA /\ RowGrade(2) = GradeF
    /\ audit.total_earned = RowCredits(1)

\* the codes whose record has a credit weight above 0
GpaCodes == {c \in RowCodes : RecordedCredits(c) > 0}
RecordedPoints(c) == GRADE_POINTS[RowGrade(Last(EligibleRows(c)))]

\* the sum of points x credits on record over the codes of S
RECURSIVE SumWeightedPoints(_)
SumWeightedPoints(S) ==
    IF S = {} THEN 0
    ELSE LET c == CHOOSE x \in S : TRUE
         IN  RecordedPoints(c) * RecordedCredits(c)
                 + SumWeightedPoints(S \ {c})

\* C7: the CGPA is (sum of points x credits) / (sum of credits) over exactly
\* the records whose credit weight is > 0, and 0.0 when that sum of credits
\* is 0.
C7_Cgpa ==
    Returned =>
        \E codes \in {GpaCodes} :
        \E num \in {SumWeightedPoints(codes)},
           den \in {SumRecordedCredits(codes)} :
            IF den = 0 THEN audit.cgpa = <<0, 1>>
            ELSE audit.cgpa[1] * (10 * den) = num * audit.cgpa[2]

\* records with credit weight 0 and below 0 beside one that counts
C7_Witness ==
    /\ pc = "audited"
    /\ \E c \in DOMAIN course_history : course_history[c].credits = 0
    /\ \E c \in DOMAIN course_history : course_history[c].credits < 0
    /\ \E c \in DOMAIN course_history : course_history[c].credits > 0
    /\ audit.cgpa[1] > 0

\* the list of a category in the requirement set
RequiredOf(cat) ==
    CASE cat = "GED" -> requirements.mandatory_ged
      [] cat = "Math" -> requirements.core_math
      [] cat = "Core" -> requirements.major_core
      [] cat = "Science" -> requirements.core_science
      [] cat = "Business" -> requirements.core_business

\* m is r without the elements at the positions of drop, order kept
IsOrderedFilter(m, r, drop) ==
    LET kept == DOMAIN r \ drop
        rank(i) == Cardinality({k \in kept : k <= i})
    IN  /\ Len(m) = Cardinality(kept)
        /\ \A i \in kept : m[rank(i)] = r[i]

\* C8: each missing list is the required codes of its category that are not
\* in passed_courses, in the order of the requirement set; a passed code is
\* in none.
C8_MissingInOrder ==
    Returned =>
        \A cat \in Categories :
            LET r == RequiredOf(cat)
            IN  /\ IsOrderedFilter(audit.missing[cat], r,
                       {i \in DOMAIN r : r[i] \in audit.passed_courses})
                /\ \A k \in DOMAIN audit.missing[cat] :
                       audit.missing[cat][k] \notin audit.passed_courses

\* two codes missing in document order, which is not sorted order, and a
\* passed required code left out
C8_Witness ==
    /\ pc = "audited"
    /\ audit.missing.Core = <<MAT116, CSE115>>
    /\ requirements.mandatory_ged = <<ENG102>>
    /\ ENG102 \in audit.passed_courses
    /\ audit.missing.GED = <<>>

(***************************************************************************)
(* Properties of the parser (checked under SpecParse)                      *)
(***************************************************************************)
\* what each line of the documents is: a program header and the name in it,
\* a course bullet and the code on it, a credit line, a category label
LineRead ==
    [raw \in DocLines |->
        LET text == strip(raw)
            header == ProgramMatches(text)
            bullet == ~header /\ CourseMatches(text)
        IN  [header |-> header,
             name |-> IF header THEN strip(ProgramGroup(text)) ELSE <<>>,
             bullet |-> bullet,
             code |-> IF bullet THEN CourseGroup(text) ELSE <<>>,
             total |-> ~header /\ startswith(text, TotalCreditsLabel),
             label |-> /\ ~header
                       /\ \E l \in {MandatoryGedLabel, CoreMathLabel,
                                     MajorCoreLabel, CoreBusinessLabel,
                                     CoreScienceLabel} : startswith(text, l)]]

IsHeader(i) == LineRead[lines[i]].header
IsTargetHeader(i) == IsHeader(i) /\ LineRead[lines[i]].name = program_name
IsOtherHeader(i) == IsHeader(i) /\ LineRead[lines[i]].name # program_name
IsBullet(i) == LineRead[lines[i]].bullet
BulletCode(i) == LineRead[lines[i]].code
IsTotalLine(i) == LineRead[lines[i]].total
IsLabelLine(i) == LineRead[lines[i]].label

\* line i lies after a header of the target program and no header of
\* another program lies between the two
InTargetSection(i) ==
    \E j \in 1..(i - 1) :
        /\ IsTargetHeader(j)
        /\ \A k \in (j + 1)..(i - 1) : ~IsOtherHeader(k)

SectionBullets == {i \in DOMAIN lines : IsBullet(i) /\ InTargetSection(i)}

CategoryLists ==
    <<requirements.mandatory_ged, requirements.core_math,
      requirements.major_core, requirements.core_business,
      requirements.core_science>>

ListedCodes ==
    UNION {{CategoryLists[n][k] : k \in DOMAIN CategoryLists[n]} :
               n \in DOMAIN CategoryLists}

ListedCount ==
    Len(CategoryLists[1]) + Len(CategoryLists[2]) + Len(CategoryLists[3])
        + Len(CategoryLists[4]) + Len(CategoryLists[5])

\* C9: every code in a category list comes from a bullet line inside the
\* target program's section (after a target header, before the next header
\* of another program); bullets before the target header or in another
\* program's section are never included.
C9_OnlySectionBullets ==
    /\ \A code \in ListedCodes :
         \E i \in SectionBullets : BulletCode(i) = code
    /\ ListedCount <= Cardinality(SectionBullets)

\* a bullet outside the section left out while a bullet inside it is listed
C9_Witness ==
    /\ pc = "parsed"
    /\ ListedCount = 1
    /\ \E i \in DOMAIN lines :
         /\ IsBullet(i) /\ ~InTargetSection(i)
         /\ BulletCode(i) \notin ListedCodes

\* C10: when no program header names the target, the parser does not fail
\* and the requirement set stays total_credits_required = 0, min_cgpa = 2.0,
\* all five lists empty, whatever else the document holds.
C10_UnmatchedProgram ==
    (\A i \in DOMAIN lines : ~IsTargetHeader(i)) =>
        /\ pc # "crashed"
        /\ requirements =
               [total_credits_required |-> 0, min_cgpa |-> 20,
                mandatory_ged |-> <<>>, core_math |-> <<>>,
                major_core |-> <<>>, core_business |-> <<>>,
                core_science |-> <<>>]

\* a returned parse of a document with another program's header, a credit
\* line, a category label and a bullet, none of them the target's
C10_Witness ==
    /\ pc = "parsed"
    /\ \A i \in DOMAIN lines : ~IsTargetHeader(i)
    /\ \E i \in DOMAIN lines : IsOtherHeader(i)
    /\ \E i \in DOMAIN lines : IsTotalLine(i)
    /\ \E i \in DOMAIN lines : IsLabelLine(i)
    /\ \E i \in DOMAIN lines : IsBullet(i)

\* the requirement set returned when no header of the document names the
\* requested program
UnrecognizedRequirements ==
    [total_credits_required |-> 0, min_cgpa |-> 20,
     mandatory_ged |-> <<>>, core_math |-> <<>>, major_core |-> <<>>,
     core_business |-> <<>>, core_science |-> <<>>]

\* C11 as stated: with the requirement set of an unrecognized program every
\* non-empty transcript is reported eligible.
C11_AnyTranscriptEligible ==
    (pc = "reported" /\ requirements = UnrecognizedRequirements
        /\ rows # <<>>) => is_eligible

\* C11: with the requirement set of an unrecognized program (0 credits, no
\* required course, min_cgpa 2.0) nothing is missing, and the verdict is
\* eligible exactly when the CGPA is at least 2.0 and total_earned is not
\* negative.
C11_EligibleIffCgpa ==
    (pc = "reported" /\ requirements = UnrecognizedRequirements) =>
        /\ \A cat \in Categories : audit.missing[cat] = <<>>
        /\ is_eligible <=>
               (audit.cgpa[1] >= 2 * audit.cgpa[2] /\ audit.total_earned >= 0)

\* an unrecognized program, a non-empty transcript and an eligible verdict
C11_Witness ==
    /\ pc = "reported"
    /\ requirements = UnrecognizedRequirements
    /\ program_name = EEE
    /\ rows # <<>>
    /\ is_eligible

\* the grade strings that upper() takes to F, W, I or X
NonPassingGrades ==
    {<<"F">>, <<"f">>, <<"W">>, <<"w">>, <<"I">>, <<"i">>, <<"X">>, <<"x">>}

\* the codes of the rows whose grade, stripped, is none of them
CodesOfPassingGrades ==
    {RowCode(i) : i \in {j \in DOMAIN rows : RowGrade(j) \notin NonPassingGrades}}

\* C12: a grade is passing iff, upper-cased, it is none of F, W, I, X,
\* whether or not it has a point value: after any rows the passed set of
\* audit_student is the codes of the rows whose grade is none of F, W, I, X
\* in either case, and the Level 1 tally of a row counts it iff its grade
\* is none of them; F has the point value 0.0 and is not passing.
C12_PassingIffNotFWIX ==
    /\ passed_courses = CodesOfPassingGrades
    /\ rows # <<>> =>
          calculate_credits(<<rows[Len(rows)]>>).passed_courses =
              IF RowGrade(Len(rows)) \in NonPassingGrades THEN {}
              ELSE {RowCode(Len(rows))}
    /\ GRADE_POINTS[GradeF] = 0

\* a code whose only grade is F, recorded with its point value and not
\* passed, beside a code passed on a grade that has no point value
C12_Witness ==
    /\ \E c \in DOMAIN course_history :
          c \notin passed_courses /\ course_history[c].grade = GradeF
    /\ \E i \in DOMAIN rows :
          /\ upper(RowGrade(i)) \notin DOMAIN GRADE_POINTS
          /\ RowCode(i) \in passed_courses
          /\ RowCode(i) \notin DOMAIN course_history

\* the Credits texts of the transcript rows that float() rejects
NonNumericCredits == {<<"x">>, <<>>}

\* C13: a row whose credit value is not a number is processed with credit
\* weight 0.0: its code is in passed_courses when its grade is passing (in
\* the Level 1 tally too, which adds 0 for it), and when its grade has a
\* point value and no later row of the code has one, latest_attempt holds
\* that grade with credits 0.
C13_NonNumericCredits ==
    \A i \in DOMAIN rows :
        rows[i].Credits \in NonNumericCredits =>
            \E c \in {RowCode(i)}, g \in {RowGrade(i)} :
                /\ g \notin NonPassingGrades =>
                      /\ c \in passed_courses
                      /\ calculate_credits(<<rows[i]>>) =
                             [passed_courses |-> {c}, total_credits |-> 0,
                              raised |-> "None"]
                /\ (g \in DOMAIN GRADE_POINTS /\ i = Last(EligibleRows(c))) =>
                      /\ c \in DOMAIN course_history
                      /\ course_history[c] =
                             [grade |-> g, credits |-> 0,
                              points |-> GRADE_POINTS[g]]

\* a retake with a non-numeric credit value has replaced a record that had
\* a credit weight
C13_Witness ==
    \E i, j \in DOMAIN rows :
        /\ i < j
        /\ RowCode(i) = RowCode(j)
        /\ RowCredits(i) > 0
        /\ RowGrade(i) \in DOMAIN GRADE_POINTS
        /\ rows[j].Credits \in NonNumericCredits
        /\ RowCode(j) \in passed_courses
        /\ RowCode(j) \in DOMAIN course_history
        /\ course_history[RowCode(j)].credits = 0
        /\ course_history[RowCode(j)].grade = RowGrade(j)

\* C14: whatever the rows of a readable transcript contain (unknown grades,
\* non-numeric or empty credit values, rows without a Grade or a Course_Code
\* field), audit_student raises nothing: a run whose two files are readable
\* never ends on an uncaught exception.
C14_AuditNeverRaises ==
    (program_file = "readable" /\ transcript_file = "readable") =>
        pc # "crashed"

\* C15: when the program file or the transcript cannot be read the run ends
\* in an error (sys.exit(1) for a missing file, an uncaught exception
\* otherwise) with no row processed, no audit result and no verdict; when it
\* is the program file, the run ends before the transcript is opened.
C15_UnreadableSourceAborts ==
    /\ (program_file # "readable" \/ transcript_file # "readable") =>
          /\ pc \in {"main", "parsed", "exited", "crashed"}
          /\ row = NoRow /\ rows = <<>>
          /\ passed_courses = {} /\ course_history = <<>>
          /\ audit = NoAudit
          /\ is_eligible = FALSE
    /\ program_file = "missing" => pc \in {"main", "exited"}
    /\ program_file = "unreadable" => pc \in {"main", "crashed"}
    /\ program_file # "readable" => lines = <<>>
    /\ (program_file = "readable" /\ transcript_file = "missing") =>
          pc \in {"main", "parsed", "exited"}
    /\ (program_file = "readable" /\ transcript_file = "unreadable") =>
          pc \in {"main", "parsed", "crashed"}

\* the requirements were parsed, then the transcript was not found
C15_Witness ==
    /\ pc = "exited"
    /\ program_file = "readable"
    /\ transcript_file = "missing"
    /\ lines = ProgramDoc
    /\ requirements.total_credits_required > 0
    /\ audit = NoAudit

\* the position in CategoryLists of the list each category label names
ListOfLabel ==
    (GedLine :> 1) @@ (MathLine :> 2) @@ (CoreLine :> 3) @@
    (BusinessLine :> 4) @@ (ScienceLine :> 5)

\* the list that governs line i of the target section: that of the last
\* category label since the last program header, 0 when there is none
GoverningList(i) ==
    \* the target header that opened the section line i is in
    LET header == Last({j \in 1..(i - 1) : IsHeader(j)})
        labels == {j \in (header + 1)..(i - 1) : IsLabelLine(j)}
    IN  IF labels = {} THEN 0 ELSE ListOfLabel[lines[Last(labels)]]

\* list is the codes of the bullet lines at the positions of from, in order
IsBulletList(list, from) ==
    /\ Len(list) = Cardinality(from)
    /\ \A i \in from :
          list[Cardinality({k \in from : k <= i})] = BulletCode(i)

\* C16: each category list is, in order, the codes of the bullet lines of
\* the target section whose most recent category label since the most
\* recent target header names that list; so a bullet is in exactly one
\* list, a bullet before any label is in none, and a label line adds
\* nothing.
C16_BulletsByLatestLabel ==
    \E bullets \in {[i \in SectionBullets |-> GoverningList(i)]} :
        \A n \in DOMAIN CategoryLists :
            IsBulletList(CategoryLists[n],
                         {i \in DOMAIN bullets : bullets[i] = n})

\* a bullet of the section before any label, listed nowhere, then a label
\* and a bullet listed under it
C16_Witness ==
    \E i, j, k \in DOMAIN lines :
        /\ i < j /\ j < k
        /\ i \in SectionBullets /\ GoverningList(i) = 0
        /\ IsLabelLine(j)
        /\ k \in SectionBullets /\ GoverningList(k) = ListOfLabel[lines[j]]
        /\ ListedCount = 1
        /\ CategoryLists[ListOfLabel[lines[j]]] = <<BulletCode(k)>>

\* the integer written on each credit line that has one
TotalOnLine == (TotalLine6 :> 6) @@ (TotalLine130 :> 130)

\* the credit lines inside the target section
SectionTotals == {i \in DOMAIN lines : IsTotalLine(i) /\ InTargetSection(i)}

\* C17: total_credits_required is the integer on the last credit line of the
\* target section (each such line overwrites the value), 0 when the section
\* has none; a credit line outside the section does not change it.
C17_TotalLastWins ==
    pc # "crashed" =>
        \E totals \in {SectionTotals} :
            requirements.total_credits_required =
                IF totals = {} THEN 0 ELSE TotalOnLine[lines[Last(totals)]]

\* a returned parse with a credit line before the section and two credit
\* lines of different values inside it
C17_Witness ==
    /\ pc = "parsed"
    /\ \E i, j, k \in DOMAIN lines :
          /\ IsTotalLine(i) /\ ~InTargetSection(i)
          /\ j < k
          /\ {j, k} \subseteq SectionTotals
          /\ lines[j] # lines[k]
          /\ lines[i] # lines[k]
          /\ requirements.total_credits_required = TotalOnLine[lines[k]]

\* C18: min_cgpa is 2.0 whatever the document and the program name, and
\* reading a minimum-CGPA line changes neither the requirement set (min_cgpa,
\* total_credits_required, the five lists) nor the active category.
C18_MinCgpaFixed ==
    [][/\ requirements.min_cgpa = 20
       /\ requirements'.min_cgpa = 20
       /\ lines' = Append(lines, MinCgpaLine) =>
             /\ requirements' = requirements
             /\ current_section' = current_section
             /\ target_program_found' = target_program_found]_vars

\* a minimum-CGPA line was the last line read, inside the target section,
\* with a credit total and a category list already filled and a category
\* active
C18_Witness ==
    /\ lines # <<>>
    /\ lines[Len(lines)] = MinCgpaLine
    /\ InTargetSection(Len(lines))
    /\ requirements.total_credits_required + ListedCount > 0
    /\ current_section \notin {"None", "PROGRAM_HEADER"}
    /\ requirements.min_cgpa = 20

\* C19: on the same rows, total_earned of audit_student equals the total of
\* the Level 1 tally (calculate_credits), retakes with other credit values
\* and passing grades without a point value included.
C19_SameTotalAsLevel1 ==
    Returned =>
        \E tally \in {calculate_credits(rows)} :
            /\ tally.raised = "None"
            /\ audit.total_earned = tally.total_credits

====
